---- MODULE Spec2Model ----
(***************************************************************************)
(* Model of the three request handlers of the 2026 Auspicious Year Report  *)
(*   "fortune"  : src/netlify/functions/fortune.js  (Netlify, html field)  *)
(*   "part_000" : src/unnamed/part_000  (Netlify, strict dob, resultHtml)  *)
(*   "part_001" : src/unnamed/part_001  (Vercel, 410 on expiry)            *)
(* One deployed variant serves one request at a time.  Each handler is two *)
(* atomic steps separated by its single suspend point, the awaited fetch.  *)
(*                                                                         *)
(* Text is a sequence of characters; a fixed literal fragment of the       *)
(* source (a message, a template line) is kept as one element.             *)
(***************************************************************************)
EXTENDS Integers, Sequences, FiniteSets, TLC

VARIABLES h, env, now, req, pc, resp, responses, calls, sent, reply, log

vars == <<h, env, now, req, pc, resp, responses, calls, sent, reply, log>>

(***************************************************************************)
(* JavaScript values.                                                      *)
(***************************************************************************)
Str(s) == [t |-> "string", s |-> s, n |-> 0]
Num(n) == [t |-> "number", s |-> <<>>, n |-> n]
Bool(b) == [t |-> "boolean", s |-> <<>>, n |-> IF b THEN 1 ELSE 0]
Undef == [t |-> "undefined", s |-> <<>>, n |-> 0]
Null == [t |-> "null", s |-> <<>>, n |-> 0]
EmptyArr == [t |-> "array", s |-> <<>>, n |-> 0]
Obj == [t |-> "object", s |-> <<>>, n |-> 0]

\* ToBoolean: what `!v`, `v || w`, `v && w` test.
Truthy(v) ==
  CASE v.t = "string" -> v.s # <<>>
    [] v.t = "number" -> v.n # 0
    [] v.t = "boolean" -> v.n = 1
    [] v.t \in {"undefined", "null"} -> FALSE
    [] OTHER -> TRUE

\* v || w
Or(v, w) == IF Truthy(v) THEN v ELSE w

Range(s) == {s[i] : i \in 1..Len(s)}

DigitChars == <<"0", "1", "2", "3", "4", "5", "6", "7", "8", "9">>
LowerCase == <<"a", "b", "c", "d", "e", "f", "g", "h", "i", "j", "k", "l", "m",
               "n", "o", "p", "q", "r", "s", "t", "u", "v", "w", "x", "y", "z">>
UpperCase == <<"A", "B", "C", "D", "E", "F", "G", "H", "I", "J", "K", "L", "M",
               "N", "O", "P", "Q", "R", "S", "T", "U", "V", "W", "X", "Y", "Z">>
WhiteSpace == {" ", "\t", "\n"}

\* String.prototype.toUpperCase
toUpperCase(s) ==
  [i \in 1..Len(s) |->
     IF \E k \in 1..Len(LowerCase) : LowerCase[k] = s[i]
       THEN UpperCase[CHOOSE k \in 1..Len(LowerCase) : LowerCase[k] = s[i]]
       ELSE s[i]]

\* String.prototype.trim
trim(s) ==
  LET keep == {i \in 1..Len(s) : s[i] \notin WhiteSpace}
  IN IF keep = {} THEN <<>>
     ELSE SubSeq(s, CHOOSE i \in keep : \A j \in keep : i <= j,
                    CHOOSE i \in keep : \A j \in keep : j <= i)

\* Number to decimal text (non-negative integers).
RECURSIVE Digits(_)
Digits(n) == IF n < 10 THEN <<DigitChars[n + 1]>>
             ELSE Digits(n \div 10) \o <<DigitChars[(n % 10) + 1]>>

\* TemplateString, as applied by a template literal `${v}`.
TemplateString(v) ==
  CASE v.t = "string" -> v.s
    [] v.t = "number" -> Digits(v.n)
    [] v.t = "boolean" -> IF v.n = 1 THEN <<"true">> ELSE <<"false">>
    [] v.t = "undefined" -> <<"undefined">>
    [] v.t = "null" -> <<"null">>
    [] v.t = "array" -> <<>>
    [] OTHER -> <<"[object Object]">>

\* JSON.stringify of an object literal: a property whose value is undefined
\* is omitted.  An object is a set of name/value pairs.
Stringify(fields) == {f \in fields : f.value.t # "undefined"}

Field(name, v) == [name |-> name, value |-> v]

(***************************************************************************)
(* Time.  An instant is a UTC calendar date with the second of that day.   *)
(* Fixed-width ISO date strings compare as their <<year, month, day>>.     *)
(***************************************************************************)
DateLess(a, b) ==
  \/ a[1] < b[1]
  \/ a[1] = b[1] /\ a[2] < b[2]
  \/ a[1] = b[1] /\ a[2] = b[2] /\ a[3] < b[3]

At(date, sec) == [date |-> date, sec |-> sec]

\* a > b on Date objects
After(a, b) == DateLess(b.date, a.date) \/ (a.date = b.date /\ a.sec > b.sec)

LastSecond == 86399

\* The instants a request can arrive at, in order.
Clock == << At(<<2026, 3, 31>>, LastSecond), At(<<2026, 4, 1>>, 0),
            At(<<2026, 4, 30>>, 43200), At(<<2026, 5, 1>>, 0) >>

(***************************************************************************)
(* Process configuration.                                                  *)
(***************************************************************************)
Handlers == {"fortune", "part_000", "part_001"}

Credential == <<"sk-credential">>
Keys == {Undef, Str(Credential)}

NoDate == [t |-> "unset", date |-> <<0, 0, 0>>]
InvalidDate == [t |-> "invalid", date |-> <<0, 0, 0>>]
ValidDate(d) == [t |-> "date", date |-> d]
ExpiryDates == {NoDate, InvalidDate, ValidDate(<<2026, 4, 30>>)}

SignOffs == {Undef, Str(<<"<div>custom sign-off</div>">>)}

\* EXPIRY_DATE and SIGN_OFF_HTML are read by part_000 only.
Envs(v) ==
  IF v = "part_000"
    THEN [OPENAI_API_KEY : Keys, EXPIRY_DATE : ExpiryDates, SIGN_OFF_HTML : SignOffs]
    ELSE [OPENAI_API_KEY : Keys, EXPIRY_DATE : {NoDate}, SIGN_OFF_HTML : {Undef}]

(***************************************************************************)
(* Requests.  A body is absent, or text that is or is not JSON; doc is the *)
(* document the text denotes.  On Vercel the body arrives as a string, as  *)
(* an object the runtime parsed already, or only on the request stream.    *)
(***************************************************************************)
Methods == {"GET", "PUT", "POST"}

DobValues ==
  { Undef, Null, Num(0), Num(5), Bool(TRUE), EmptyArr, Obj,
    Str(<<>>), Str(<<" ", " ">>),
    Str(<<"0", "8", "D", "E", "C", "1", "9", "7", "7">>),
    Str(<<" ", "0", "8", "d", "e", "c", "1", "9", "7", "7", "\n">>),
    Str(<<"2", "0", "2", "6">>),
    Str(<<"0", "8", "-", "D", "e", "c", "-", "1", "9", "7", "7">>) }

LanguageValues == {Undef, Str(<<"e", "n">>), Str(<<"z", "h">>), Str(<<"Z", "H">>), Num(5)}

JObject(dob, language) == [t |-> "object", dob |-> dob, language |-> language]
JNull == [t |-> "null", dob |-> Undef, language |-> Undef]
JNumber == [t |-> "number", dob |-> Undef, language |-> Undef]
Docs == {JNull, JNumber} \cup {JObject(d, l) : d \in DobValues, l \in LanguageValues}

Body(kind, via, doc) == [kind |-> kind, via |-> via, doc |-> doc]
NoBody == Body("absent", "string", JObject(Undef, Undef))

Bodies(v) ==
  {NoBody, Body("malformed", "string", JNull)}
    \cup {Body("json", "string", d) : d \in Docs}
    \cup IF v = "part_001"
           THEN {Body("malformed", "stream", JNull), Body("json", "stream", JNull)}
                  \cup {Body("json", "stream", JObject(d, Undef)) : d \in DobValues}
                  \cup {Body("json", "parsed", JObject(d, Str(<<"z", "h">>))) : d \in DobValues}
           ELSE {}

Request(method, body) == [method |-> method, body |-> body]
NoRequest == Request("", NoBody)

\* JSON.parse(text || "{}"): throws on text that is not JSON.
JSONparse(body) ==
  IF body.kind = "absent" THEN [ok |-> TRUE, doc |-> JObject(Undef, Undef)]
  ELSE IF body.kind = "malformed" THEN [ok |-> FALSE, doc |-> JNull]
  ELSE [ok |-> TRUE, doc |-> body.doc]

\* Reading a property of undefined or null throws a TypeError; a number
\* has no own dob or language.
Readable(doc) == doc.t # "null"
GetDob(doc) == IF doc.t = "object" THEN doc.dob ELSE Undef
GetLanguage(doc) == IF doc.t = "object" THEN doc.language ELSE Undef

(***************************************************************************)
(* Responses, log lines, and the result of running a stretch of handler.   *)
(***************************************************************************)
Response(status, body) == [status |-> status, body |-> body]
NoResponse == Response(0, {})

Line(msg, detail) == [msg |-> msg, detail |-> detail]

NoPrompt == <<>>
NoError == <<>>
Return(r, lines) ==
  [kind |-> "return", resp |-> r, prompt |-> NoPrompt, lines |-> lines, err |-> NoError]
Fetch(prompt) ==
  [kind |-> "fetch", resp |-> NoResponse, prompt |-> prompt, lines |-> <<>>, err |-> NoError]
Throw(err) ==
  [kind |-> "throw", resp |-> NoResponse, prompt |-> NoPrompt, lines |-> <<>>, err |-> err]

TypeError == <<"TypeError">>
SyntaxError == <<"SyntaxError">>
NetworkError == <<"fetch failed">>

(***************************************************************************)
(* What the generation API can answer.  data is the parsed payload:        *)
(* content stands for choices[0].message.content, undefined when any link  *)
(* of that chain is missing.                                               *)
(***************************************************************************)
Generated == <<"<h2>", "R", "</h2>">>
UpstreamBody == "upstream-error-body"

OutputTexts == {Undef, Str(<<>>), Str(Generated), Num(42)}
Contents == {Undef, Str(<<>>), Str(<<" ", " ">>), Str(Generated),
             Str(<<" ">> \o Generated \o <<"\n">>), Num(42), Obj}

Payload(t, output_text, content) ==
  [t |-> t, output_text |-> output_text, content |-> content]
NoPayload == Payload("null", Undef, Undef)
Payloads == {NoPayload} \cup {Payload("object", o, c) : o \in OutputTexts, c \in Contents}

Reply(kind, ok, status, textOk, jsonOk, data) ==
  [kind |-> kind, ok |-> ok, status |-> status, text |-> UpstreamBody,
   textOk |-> textOk, jsonOk |-> jsonOk, data |-> data]
NoReply == Reply("none", FALSE, 0, FALSE, FALSE, NoPayload)

Replies ==
  {Reply("neterr", FALSE, 0, FALSE, FALSE, NoPayload)}
    \cup {Reply("http", FALSE, st, tx, FALSE, NoPayload) : st \in {429, 500}, tx \in BOOLEAN}
    \cup {Reply("http", TRUE, 200, TRUE, FALSE, NoPayload)}
    \cup {Reply("http", TRUE, 200, TRUE, TRUE, d) : d \in Payloads}

(***************************************************************************)
(* src/netlify/functions/fortune.js                                        *)
(***************************************************************************)
FortuneExpiryDate == <<2026, 4, 30>>

FortuneExpiredHtml ==
  <<"\n", "<div class=\"expired-message\">", "<strong>This service has ended.</strong><br/>",
    "Thank you for your interest in the 2026 Auspicious Year Report.", "</div>", "\n">>

FortuneFallback ==
  <<"<p>Sorry, I could not generate your report at this time. Please try again later.</p>">>

FortuneLanguageInstruction(lang) ==
  IF lang = <<"z", "h">>
    THEN << "Write the entire report in natural, fluent Simplified Chinese suitable for readers in Singapore.",
            " Keep headings and structure clear. IMPORTANT: In the 'Practical Dos & Don'ts for 2026' section, keep the bullet labels beginning with '",
            "Do:", "' and '", "Don't:",
            "' in English so the front-end can style them, but the rest of the sentence can be in Chinese." >>
    ELSE << "Write the entire report in English.",
            " In the 'Practical Dos & Don'ts for 2026' section, each bullet should start with '",
            "Do:", "' or '", "Don't:", "' so the front-end can colour them." >>

FortunePrompt(dob, lang) ==
  trim( <<"\n", "Date of birth: ">> \o dob
        \o << "\n", "\n", "Please generate a personalised 2026 auspicious year report ...", "\n",
              "Requirements: ...", "\n",
              "- Include a specific section titled: \"Practical Dos & Don'ts for 2026\" as a bullet list.", "\n",
              "- Each bullet in that section must begin with \"", "Do:", "\" or \"", "Don't:",
              "\" exactly, followed by the advice sentence.", "\n",
              "- Keep the length balanced ...", "\n", "\n", "Language rule:", "\n" >>
        \o FortuneLanguageInstruction(lang) \o <<"\n", " ">> )

FortuneGateMutant(event) == event.method = "GET"

FortuneGate(event) == event.method # "POST"

FortuneError(msg) == Stringify({Field("error", Str(<<msg>>))})

\* handler, from entry to the awaited fetch
FortuneBegin(event, config, t) ==
  IF FortuneGate(event)
    THEN Return(Response(405, FortuneError("Method not allowed")), <<>>)
  ELSE IF ~Truthy(config.OPENAI_API_KEY)
    THEN Return(Response(500, FortuneError("Server configuration error: API key not set.")),
                <<Line("Missing OPENAI_API_KEY", <<>>)>>)
  ELSE IF DateLess(FortuneExpiryDate, t.date)
    THEN Return(Response(200, Stringify({Field("html", Str(FortuneExpiredHtml))})), <<>>)
  ELSE LET parsed == JSONparse(event.body) IN
    IF ~parsed.ok THEN Throw(SyntaxError)
    ELSE IF ~Readable(parsed.doc) THEN Throw(TypeError)
    ELSE LET dob == GetDob(parsed.doc)
             language == GetLanguage(parsed.doc)
             lang == IF language = Str(<<"z", "h">>) THEN <<"z", "h">> ELSE <<"e", "n">>
         IN IF ~Truthy(dob) \/ dob.t # "string"
              THEN Return(Response(400,
                     FortuneError("Missing or invalid 'dob'. Please provide DDMMMYYYY.")), <<>>)
              ELSE Fetch(FortunePrompt(dob.s, lang))

\* handler, from the fetch's completion to the return
FortuneResume(r) ==
  IF r.kind = "neterr" THEN Throw(NetworkError)
  ELSE IF ~r.ok
    THEN IF ~r.textOk THEN Throw(NetworkError)
         ELSE Return(Response(502,
                FortuneError("OpenAI API error. Please try again later or contact the site owner.")),
                <<Line("OpenAI API error:", Digits(r.status) \o <<r.text>>)>>)
  ELSE IF ~r.jsonOk THEN Throw(SyntaxError)
  ELSE IF r.data.t = "null" THEN Throw(TypeError)
  ELSE LET message == r.data.content
           html == Or(message, Str(FortuneFallback))
       IN Return(Response(200, Stringify({Field("html", html)})), <<>>)

\* the catch clause around the whole handler
FortuneCatch(out) ==
  IF out.kind = "throw"
    THEN Return(Response(500, FortuneError("Unexpected server error. Please try again later.")),
                <<Line("Unexpected error in fortune function:", out.err)>>)
    ELSE out

(***************************************************************************)
(* src/unnamed/part_000                                                    *)
(***************************************************************************)
EXPIRY_MESSAGE == "This service has ended. Thank you for your interest."

json(body, status) == Response(status, Stringify(body))

\* /^\d{2}[A-Z]{3}\d{4}$/ (no flags: $ is the end of the text)
isValidDOB(dob) ==
  /\ Len(dob) = 9
  /\ \A i \in {1, 2, 6, 7, 8, 9} : dob[i] \in Range(DigitChars)
  /\ \A i \in {3, 4, 5} : dob[i] \in Range(UpperCase)

getDefaultSignOff == <<"\n", "<div class=\"signoff\">", "Prepared by Mike Lim ...", "</div>">>

buildPrompt(dob) ==
  << "You are generating a concise, upbeat 2026 Auspicious Report for entertainment only.", "\n",
     "User supplied a date of birth: " >> \o dob
  \o << ". Use it to personalize lightly via zodiac/numerology style cues.", "\n",
        "Singapore audience; keep language clear, non-mystical, and avoid absolutes.", "\n",
        "Length target: 170-220 words.", "\n", "\n",
        "Return ONLY HTML with these sections (use <h3> and <p> tags): ...", "\n", "\n",
        "Rules:", "\n",
        "- Do NOT request or store personal data beyond the DOB given.", "\n",
        "- Avoid medical/financial claims; use tendencies and energy language.", "\n",
        "- Keep it positive, specific, and mobile-friendly paragraphs.", "\n" >>

StrictGate(event) == event.method # "POST"

\* callOpenAI up to the fetch
callOpenAI(prompt, config) ==
  IF ~Truthy(config.OPENAI_API_KEY)
    THEN Throw(<<"Missing OPENAI_API_KEY environment variable.">>)
    ELSE Fetch(prompt)

\* callOpenAI after the fetch: the text, or the error thrown
callOpenAIResult(r) ==
  IF r.kind = "neterr" THEN [ok |-> FALSE, text |-> Undef, err |-> NetworkError]
  ELSE IF ~r.ok
    THEN IF ~r.textOk THEN [ok |-> FALSE, text |-> Undef, err |-> NetworkError]
         ELSE [ok |-> FALSE, text |-> Undef,
               err |-> <<"OpenAI API error: ">> \o Digits(r.status) \o <<" ", r.text>>]
  ELSE IF ~r.jsonOk THEN [ok |-> FALSE, text |-> Undef, err |-> SyntaxError]
  ELSE IF r.data.t = "null" THEN [ok |-> FALSE, text |-> Undef, err |-> TypeError]
  ELSE [ok |-> TRUE, err |-> NoError,
        text |-> Or(Or(r.data.output_text, r.data.content), Str(<<>>))]

\* expiry && new Date() > expiry: expiry is null when EXPIRY_DATE is unset;
\* a date-only string is midnight UTC; an Invalid Date compares false.
StrictExpired(config, t) ==
  /\ config.EXPIRY_DATE.t # "unset"
  /\ config.EXPIRY_DATE.t = "date" /\ After(t, At(config.EXPIRY_DATE.date, 0))

\* handler, from entry to the awaited fetch
StrictBegin(event, config, t) ==
  IF StrictGate(event)
    THEN Return(json({Field("message", Str(<<"Use POST /api/fortune">>))}, 405), <<>>)
  ELSE IF StrictExpired(config, t)
    THEN Return(json({Field("resultHtml", Str(<<"<p>", EXPIRY_MESSAGE, "</p>">>))}, 200), <<>>)
  ELSE LET parsed == JSONparse(event.body) IN
    IF ~parsed.ok THEN Throw(SyntaxError)
    ELSE IF ~Readable(parsed.doc) THEN Throw(TypeError)
    ELSE LET given == Or(GetDob(parsed.doc), Str(<<>>)) IN
      IF given.t # "string" THEN Throw(TypeError)
      ELSE LET dob == trim(toUpperCase(given.s)) IN
        IF ~isValidDOB(dob)
          THEN Return(json({Field("message", Str(<<"Please use DDMMMYYYY, e.g., 08DEC1977.">>))}, 400),
                      <<>>)
          ELSE callOpenAI(buildPrompt(dob), config)

\* handler, from the fetch's completion to the return
StrictResume(r, config) ==
  LET got == callOpenAIResult(r) IN
  IF ~got.ok THEN Throw(got.err)
  ELSE LET html == got.text
           signOff == Or(config.SIGN_OFF_HTML, Str(getDefaultSignOff))
           resultHtml == TemplateString(html) \o <<"\n">> \o TemplateString(signOff)
       IN Return(json({Field("resultHtml", Str(resultHtml))}, 200), <<>>)

\* the catch clause around the whole handler
StrictCatch(out) ==
  IF out.kind = "throw"
    THEN Return(json({Field("message", Str(<<"Server error. Please try again later.">>))}, 500),
                <<Line("error", out.err)>>)
    ELSE out

(***************************************************************************)
(* src/unnamed/part_001                                                    *)
(***************************************************************************)
VercelExpiry == At(<<2026, 3, 31>>, LastSecond)

VercelFallback == <<"<p>Sorry, the report could not be generated. Please try again later.</p>">>

VercelError(msg) == Stringify({Field("error", Str(<<msg>>))})

\* req.body when truthy (a string is parsed, an object returned as is),
\* else the text read from the stream; no data resolves to {}.
parseJsonBody(request) ==
  IF request.body.kind # "absent" /\ request.body.via = "parsed"
    THEN [ok |-> TRUE, doc |-> request.body.doc]
    ELSE JSONparse(request.body)

VercelLanguageInstruction(lang) ==
  IF lang = <<"z", "h">>
    THEN << "Write the entire report in natural, fluent Simplified Chinese suitable for readers in Singapore.",
            " Keep the HTML structure and section headings consistent." >>
    ELSE << "Write the entire report in English.",
            " Keep the HTML structure and section headings consistent." >>

VercelSectionsInstruction(dob) ==
  << "\n", "Please generate a personalised 2026 Auspicious Year Report for the following person.",
     "\n", "\n", "Date of birth: " >> \o dob
  \o << "\n", "\n", "Use a warm, encouraging, grounded tone. ...", "\n", "\n",
        "Structure the report using HTML with the following sections, in this order: ...", "\n", "\n",
        "HTML requirements: ...", "\n",
        "- Each bullet in that section must start with \"", "Do:", "\" or \"", "Don't:",
        "\" exactly, followed by the advice sentence.", "\n",
        "- Overall length should feel like a one-page reading: meaningful but not overly long.", "\n" >>

VercelPrompt(dob, lang) ==
  VercelLanguageInstruction(lang) \o <<"\n", "\n">> \o VercelSectionsInstruction(dob)

VercelGate(request) == request.method # "POST"

Escape == [kind |-> "escape", resp |-> NoResponse, prompt |-> NoPrompt, lines |-> <<>>,
           err |-> TypeError]

\* handler, from entry to the awaited fetch; nothing here is inside a try
\* except the call of parseJsonBody
VercelBegin(request, config, t) ==
  IF VercelGate(request)
    THEN Return(Response(405, VercelError("Method not allowed. Use POST.")), <<>>)
  ELSE IF ~Truthy(config.OPENAI_API_KEY)
    THEN Return(Response(500, VercelError("Server misconfigured: missing OPENAI_API_KEY.")), <<>>)
  ELSE IF After(t, VercelExpiry)
    THEN Return(Response(410, VercelError(
           "This 2026 Auspicious Report campaign has ended. Please check back for future editions.")),
           <<>>)
  ELSE LET parsed == parseJsonBody(request) IN
    IF ~parsed.ok
      THEN Return(Response(400, VercelError("Invalid JSON body.")),
                  <<Line("Failed to parse JSON body:", SyntaxError)>>)
    ELSE IF ~Readable(parsed.doc) THEN Escape
    ELSE LET given == GetDob(parsed.doc)
             dob == IF given.t = "string" THEN trim(given.s) ELSE <<>>
             lang == IF GetLanguage(parsed.doc) = Str(<<"z", "h">>) THEN <<"z", "h">> ELSE <<"e", "n">>
         IN IF dob = <<>>
              THEN Return(Response(400, VercelError(
                     "Missing or invalid 'dob'. Please provide DDMMMYYYY (e.g. 08DEC1977).")), <<>>)
              ELSE Fetch(VercelPrompt(dob, lang))

\* the try block around the fetch, with its catch clause
VercelResume(r) ==
  LET caught(err) ==
        Return(Response(500, VercelError("Unexpected server error. Please try again later.")),
               <<Line("Unexpected error in fortune handler:", err)>>)
  IN
  IF r.kind = "neterr" THEN caught(NetworkError)
  ELSE IF ~r.ok
    THEN Return(Response(502, VercelError(
           "OpenAI API error. Please try again later or contact the site owner if this persists.")),
           <<Line("OpenAI API error:",
                  Digits(r.status) \o (IF r.textOk THEN <<r.text>> ELSE <<>>))>>)
  ELSE IF ~r.jsonOk THEN caught(SyntaxError)
  ELSE LET content == IF r.data.t = "null" THEN Undef ELSE r.data.content IN
    IF content.t \in {"undefined", "null"}
      THEN Return(Response(200, Stringify({Field("html", Str(VercelFallback))})), <<>>)
    ELSE IF content.t # "string" THEN caught(TypeError)
    ELSE Return(Response(200,
           Stringify({Field("html", Or(Str(trim(content.s)), Str(VercelFallback)))})), <<>>)

(***************************************************************************)
(* The state machine.                                                      *)
(***************************************************************************)
Init ==
  /\ h \in Handlers
  /\ env \in Envs(h)
  /\ now = Clock[1]
  /\ req = NoRequest
  /\ pc = "idle"
  /\ resp = NoResponse
  /\ responses = 0
  /\ calls = 0
  /\ sent = NoPrompt
  /\ reply = NoReply
  /\ log = <<>>

\* The platform delivers a request to the deployed handler.
Invoke ==
  /\ pc = "idle"
  /\ \E i \in 1..Len(Clock) : ~After(now, Clock[i]) /\ now' = Clock[i]
  /\ \E m \in Methods, b \in Bodies(h) : req' = Request(m, b)
  /\ pc' = "ready"
  /\ UNCHANGED <<h, env, resp, responses, calls, sent, reply, log>>

\* What a stretch of handler code leaves behind: a response returned, a
\* fetch in flight, or an exception that left the handler.
Settle(out) ==
  /\ log' = log \o out.lines
  /\ CASE out.kind = "return" ->
            /\ resp' = out.resp
            /\ responses' = responses + 1
            /\ pc' = "done"
            /\ UNCHANGED <<calls, sent>>
       [] out.kind = "fetch" ->
            /\ calls' = calls + 1
            /\ sent' = out.prompt
            /\ pc' = "awaiting"
            /\ UNCHANGED <<resp, responses>>
       [] OTHER ->
            /\ pc' = "escaped"
            /\ UNCHANGED <<resp, responses, calls, sent>>
  /\ UNCHANGED <<h, env, now, req, reply>>

FortuneHandler ==
  /\ h = "fortune" /\ pc = "ready"
  /\ Settle(FortuneCatch(FortuneBegin(req, env, now)))

FortuneHandlerResume ==
  /\ h = "fortune" /\ pc = "replied"
  /\ Settle(FortuneCatch(FortuneResume(reply)))

StrictHandler ==
  /\ h = "part_000" /\ pc = "ready"
  /\ Settle(StrictCatch(StrictBegin(req, env, now)))

StrictHandlerResume ==
  /\ h = "part_000" /\ pc = "replied"
  /\ Settle(StrictCatch(StrictResume(reply, env)))

VercelHandler ==
  /\ h = "part_001" /\ pc = "ready"
  /\ Settle(VercelBegin(req, env, now))

VercelHandlerResume ==
  /\ h = "part_001" /\ pc = "replied"
  /\ Settle(VercelResume(reply))

\* The generation API answers the call in flight.
UpstreamRespond ==
  /\ pc = "awaiting"
  /\ reply' \in Replies
  /\ pc' = "replied"
  /\ UNCHANGED <<h, env, now, req, resp, responses, calls, sent, log>>

\* The invocation is over: nothing of it outlives the request, and the
\* process waits for the next one.
Complete ==
  /\ pc \in {"done", "escaped"}
  /\ pc' = "idle"
  /\ req' = NoRequest
  /\ resp' = NoResponse
  /\ responses' = 0
  /\ calls' = 0
  /\ sent' = NoPrompt
  /\ reply' = NoReply
  /\ log' = <<>>
  /\ UNCHANGED <<h, env, now>>

Next ==
  \/ Invoke
  \/ FortuneHandler
  \/ FortuneHandlerResume
  \/ StrictHandler
  \/ StrictHandlerResume
  \/ VercelHandler
  \/ VercelHandlerResume
  \/ UpstreamRespond
  \/ Complete

Spec == Init /\ [][Next]_vars

(***************************************************************************)
(* Vocabulary of the properties.                                           *)
(***************************************************************************)
Started == pc \notin {"idle", "ready"}
Ended == pc \in {"done", "escaped"}
IsPost == req.method = "POST"
HasCredential == Truthy(env.OPENAI_API_KEY)

\* The request arrived after the expiry instant the deployed handler is
\* configured with.
PastExpiry ==
  CASE h = "fortune" -> DateLess(<<2026, 4, 30>>, now.date)
    [] h = "part_001" -> After(now, At(<<2026, 3, 31>>, 86399))
    [] OTHER -> env.EXPIRY_DATE.t = "date" /\ After(now, At(env.EXPIRY_DATE.date, 0))

BodyMalformed == req.body.kind = "malformed"
\* the document the body denotes, when it is JSON
BodyDoc == IF req.body.kind = "absent" THEN JObject(Undef, Undef) ELSE req.body.doc
BodyIsObject == ~BodyMalformed /\ BodyDoc.t = "object"

DobPattern(s) ==
  /\ Len(s) = 9
  /\ \A i \in 1..9 : IF i \in 3..5 THEN s[i] \in Range(UpperCase) ELSE s[i] \in Range(DigitChars)

\* dob is absent, not a string, empty after trimming, or (strict handler)
\* off the pattern after trim and upper-casing
DobRejected ==
  LET dob == BodyDoc.dob IN
  \/ dob.t # "string"
  \/ trim(dob.s) = <<>>
  \/ h = "part_000" /\ ~DobPattern(toUpperCase(trim(dob.s)))

ResultField == IF h = "part_000" THEN "resultHtml" ELSE "html"
OneMessage(body) ==
  /\ Cardinality(body) = 1
  /\ \A f \in body : f.name \in {"error", "message"} /\ f.value.t = "string"
Mentions(body, token) == \E f \in body : token \in Range(f.value.s)

(***************************************************************************)
(* C1: a request whose method is not POST is answered 405 with the one     *)
(* method-not-allowed message, whatever the body, the credential and the   *)
(* clock, and the generation API is never called for it.                   *)
(***************************************************************************)
C1_NonPostRejected ==
  (pc # "idle" /\ ~IsPost) =>
     /\ calls = 0
     /\ pc \in {"ready", "done"}
     /\ pc = "done" =>
          /\ responses = 1
          /\ resp.status = 405
          /\ OneMessage(resp.body)
          /\ \E f \in resp.body : f.value.s \in
               {<<"Method not allowed">>, <<"Use POST /api/fortune">>,
                <<"Method not allowed. Use POST.">>}

\* a PUT answered 405 by fortune.js although no credential is configured
C1_Witness ==
  /\ pc = "done" /\ h = "fortune" /\ req.method = "PUT"
  /\ ~HasCredential /\ req.body.kind = "malformed"
  /\ resp.status = 405 /\ calls = 0

(***************************************************************************)
(* C2: a POST received after the expiry instant gets the handler's expiry  *)
(* outcome (200 with the ended notice; 410 in part_001) and no upstream    *)
(* call, for every body and with or without a credential.                  *)
(***************************************************************************)
C2_ExpiredAlwaysNotice ==
  (Started /\ IsPost /\ PastExpiry) =>
     /\ pc = "done"
     /\ calls = 0
     /\ resp.status = (IF h = "part_001" THEN 410 ELSE 200)
     /\ h # "part_001" => \E f \in resp.body : f.name = ResultField

(***************************************************************************)
(* C3: a non-expired POST whose body is an object with a dob that is       *)
(* absent, not a string, blank after trimming, or (part_000) off the       *)
(* DDMMMYYYY pattern is answered 400 without an upstream call.  Stated for *)
(* the deployments that have a credential, where no other failure than the *)
(* dob is in play.                                                         *)
(***************************************************************************)
C3_BadDobIs400 ==
  (Started /\ IsPost /\ ~PastExpiry /\ HasCredential /\ BodyIsObject /\ DobRejected) =>
     /\ pc = "done"
     /\ calls = 0
     /\ resp.status = 400

(***************************************************************************)
(* C4: with a credential configured, a non-expired POST whose body is not  *)
(* JSON is answered 400, not 500, without an upstream call.                *)
(***************************************************************************)
C4_BadJsonIs400 ==
  (Started /\ IsPost /\ ~PastExpiry /\ HasCredential /\ BodyMalformed) =>
     /\ pc = "done"
     /\ calls = 0
     /\ resp.status = 400

(***************************************************************************)
(* C5: when the upstream call completes with a non-success status the      *)
(* response is 502 with a fixed message that contains neither the upstream *)
(* body nor the credential.  Stated for the replies whose error body could *)
(* be read.                                                                *)
(***************************************************************************)
C5_UpstreamErrorIs502 ==
  (Ended /\ reply.kind = "http" /\ ~reply.ok /\ reply.textOk) =>
     /\ pc = "done"
     /\ resp.status = 502
     /\ OneMessage(resp.body)
     /\ ~Mentions(resp.body, UpstreamBody)
     /\ ~Mentions(resp.body, Credential[1])

(***************************************************************************)
(* C6: every 200 response carries a non-empty string under the handler's   *)
(* result field.                                                           *)
(***************************************************************************)
C6_SuccessHasHtmlString ==
  (pc = "done" /\ resp.status = 200) =>
     \E f \in resp.body :
        f.name = ResultField /\ f.value.t = "string" /\ f.value.s # <<>>

(***************************************************************************)
(* C7: when the upstream payload carries generated text as output_text or  *)
(* as choices[0].message.content, the result field is that text (followed  *)
(* by the sign-off block in part_000), surrounding white space aside.      *)
(***************************************************************************)
CarriedTexts ==
  {v.s : v \in {w \in {reply.data.output_text, reply.data.content} :
                  w.t = "string" /\ trim(w.s) # <<>>}}

C7_EitherShapeReturned ==
  (Ended /\ reply.kind = "http" /\ reply.ok /\ reply.jsonOk
     /\ reply.data.t = "object" /\ CarriedTexts # {}) =>
     /\ pc = "done"
     /\ resp.status = 200
     /\ \E f \in resp.body, text \in CarriedTexts :
          /\ f.name = ResultField
          /\ f.value.t = "string"
          /\ IF h = "part_000"
               THEN \E k \in 1..Len(f.value.s) :
                      SubSeq(f.value.s, 1, k) = text \o <<"\n">>
               ELSE f.value.s \in {text, trim(text)}

(***************************************************************************)
(* C8: for language exactly "zh" the prompt sent upstream asks for         *)
(* Simplified Chinese and keeps the literal tokens Do: and Don't:; for any *)
(* other language value the prompt carries no Chinese instruction.         *)
(***************************************************************************)
ChineseInstruction ==
  "Write the entire report in natural, fluent Simplified Chinese suitable for readers in Singapore."

C8_ChinesePromptKeepsTokens ==
  (calls = 1 /\ BodyIsObject) =>
     IF BodyDoc.language = Str(<<"z", "h">>)
       THEN /\ ChineseInstruction \in Range(sent)
            /\ "Do:" \in Range(sent)
            /\ "Don't:" \in Range(sent)
       ELSE ChineseInstruction \notin Range(sent)

(***************************************************************************)
(* C9: the stages run in the order Gate, Expiry, Validate, BuildPrompt,    *)
(* Generate (credential, then the call): a request answered without an     *)
(* upstream call gets the outcome of the earliest stage it fails, a        *)
(* request failing an earlier stage never reaches the call, and the call   *)
(* is issued at most once.                                                 *)
(***************************************************************************)
EarliestFailure ==
  IF ~IsPost THEN 405
  ELSE IF PastExpiry THEN (IF h = "part_001" THEN 410 ELSE 200)
  ELSE IF BodyMalformed \/ (BodyIsObject /\ DobRejected) THEN 400
  ELSE IF ~HasCredential THEN 500
  ELSE 0

C9_StagesInOrder ==
  /\ calls <= 1
  /\ (Started /\ (BodyMalformed \/ BodyIsObject) /\ EarliestFailure # 0) =>
        /\ pc = "done"
        /\ calls = 0
        /\ resp.status = EarliestFailure
  /\ (Started /\ (BodyMalformed \/ BodyIsObject) /\ EarliestFailure = 0) =>
        calls = 1

(***************************************************************************)
(* C10: every invocation ends with exactly one response whose status is    *)
(* one of 200, 400, 405, 410, 500, 502 and whose failure body has exactly  *)
(* one message field; no exception leaves the handler.                     *)
(***************************************************************************)
C10_AlwaysOneResponse ==
  Ended =>
     /\ pc = "done"
     /\ responses = 1
     /\ resp.status \in {200, 400, 405, 410, 500, 502}
     /\ resp.status # 200 => OneMessage(resp.body)

====
